---------------------------- MODULE Spec2Model ----------------------------
(***************************************************************************)
(* A model of project_gutenberg.py (class ProjectGutenberg).               *)
(*                                                                         *)
(* Python strings are sequences of one-character strings, so that find,    *)
(* replace, slicing, case conversion and lexical comparison are computed   *)
(* character by character as the interpreter computes them.  Indices into  *)
(* strings and lists are Python's (0-based, negative from the end).        *)
(*                                                                         *)
(* The class is exercised by five specifications, one per group of         *)
(* methods:                                                                *)
(*   SpecFreq   populate_freqs                                             *)
(*   SpecRank   get_20_least_frequent_words                                *)
(*   SpecBook   parse_book_txt_file, get_chapter_quote_appears,            *)
(*              get_frequency_of_word                                      *)
(*   SpecTrie   get_autocomplete_sentences                                 *)
(*   SpecGen    generate_sentence, generate_sentence_helper                *)
(***************************************************************************)
EXTENDS Integers, Sequences, FiniteSets, TLC

VARIABLES
    pc,                 \* position of the running method
    tokens,             \* book_parsed_with_apostrophes_only.split()
    freqs,              \* self.freqs, a dict in insertion order
    freqs2,             \* the reconciliation passes applied to self.freqs again
    chapters,           \* self.chapters
    least,              \* value returned by get_20_least_frequent_words
    file,               \* lines of the book file
    pos,                \* number of lines of the file consumed so far
    line,               \* the local variable line of parse_book_txt_file
    book_parsed,        \* self.book_parsed while the body is being read
    with_punctuation,   \* self.book_parsed_with_punctuation
    apostrophes_only,   \* self.book_parsed_with_apostrophes_only
    without_matching,   \* self.book_parsed_without_matching
    arg,                \* argument of the last query
    result,             \* value returned by the last query
    spans,              \* chapter_parsed of every iteration of the last query
    raised,             \* exception that ended the last query, or "none"
    book_parsed_list,   \* local of generate_sentence_helper
    next_words,         \* local of generate_sentence_helper
    word,               \* parameter of generate_sentence_helper
    word_index,         \* local of generate_sentence_helper
    sentence_len,       \* len(sentence_list) in generate_sentence
    sentence_last       \* sentence_list[-1] in generate_sentence

freqVars == <<tokens, freqs, freqs2>>
bookVars == <<file, pos, line, book_parsed, with_punctuation, apostrophes_only,
              without_matching>>
queryVars == <<arg, result, spans, raised>>
genVars == <<book_parsed_list, next_words, word, word_index, sentence_len, sentence_last>>
vars == <<pc, freqVars, chapters, least, bookVars, queryVars, genVars>>

-----------------------------------------------------------------------------
(* Characters and strings                                                  *)

LowerCase == <<"a","b","c","d","e","f","g","h","i","j","k","l","m",
               "n","o","p","q","r","s","t","u","v","w","x","y","z">>
UpperCase == <<"A","B","C","D","E","F","G","H","I","J","K","L","M",
               "N","O","P","Q","R","S","T","U","V","W","X","Y","Z">>

\* The characters in ascending code point order (ASCII), which is the order
\* Python compares strings by.
Ascii == <<"\n", " ", "!", "$", "'", "(", ")", "-", ".",
           "0", "1", "2", "3", "4", "5", "6", "7", "8", "9", "?">>
         \o UpperCase \o <<"[", "]", "_">> \o LowerCase

Ord(c) == CHOOSE i \in 1..Len(Ascii) : Ascii[i] = c

IsLower(c) == \E i \in 1..26 : LowerCase[i] = c
IsUpper(c) == \E i \in 1..26 : UpperCase[i] = c
ToUpper(c) == IF IsLower(c) THEN UpperCase[CHOOSE i \in 1..26 : LowerCase[i] = c] ELSE c
ToLower(c) == IF IsUpper(c) THEN LowerCase[CHOOSE i \in 1..26 : UpperCase[i] = c] ELSE c

StrLower(s) == [i \in 1..Len(s) |-> ToLower(s[i])]
StrUpper(s) == [i \in 1..Len(s) |-> ToUpper(s[i])]

\* a < b for Python strings
RECURSIVE StrLess(_, _)
StrLess(a, b) ==
    IF b = <<>> THEN FALSE
    ELSE IF a = <<>> THEN TRUE
    ELSE IF a[1] # b[1] THEN Ord(a[1]) < Ord(b[1])
    ELSE StrLess(Tail(a), Tail(b))

\* s.startswith(p)
StartsWith(s, p) == Len(p) <= Len(s) /\ SubSeq(s, 1, Len(p)) = p

\* s.find(p): Python's 0-based index of the first occurrence, -1 when absent
Find(s, p) ==
    LET hits == {i \in 0..(Len(s) - Len(p)) : SubSeq(s, i + 1, i + Len(p)) = p}
    IN  IF hits = {} THEN -1 ELSE CHOOSE i \in hits : \A j \in hits : i <= j

\* p in s
Contains(s, p) == Find(s, p) # -1

\* s[a:b] with Python's treatment of negative and out-of-range indices
Slice(s, a, b) ==
    LET n  == Len(s)
        lo == IF a < 0 THEN (IF a + n < 0 THEN 0 ELSE a + n) ELSE (IF a > n THEN n ELSE a)
        hi == IF b < 0 THEN (IF b + n < 0 THEN 0 ELSE b + n) ELSE (IF b > n THEN n ELSE b)
    IN  SubSeq(s, lo + 1, hi)

\* s[a:]
SliceFrom(s, a) == Slice(s, a, Len(s))

\* s.replace(old, new), old not empty: leftmost non-overlapping occurrences
RECURSIVE Replace(_, _, _)
Replace(s, old, new) ==
    IF Len(s) < Len(old) THEN s
    ELSE IF SubSeq(s, 1, Len(old)) = old
         THEN new \o Replace(SubSeq(s, Len(old) + 1, Len(s)), old, new)
         ELSE <<s[1]>> \o Replace(Tail(s), old, new)

\* ''.join(ch for ch in s if ch not in exclude)
RECURSIVE Strip(_, _)
Strip(s, exclude) ==
    IF s = <<>> THEN <<>>
    ELSE (IF s[1] \in exclude THEN <<>> ELSE <<s[1]>>) \o Strip(Tail(s), exclude)

\* s.split(): the maximal runs of non-blank characters
RECURSIVE SplitFrom(_, _)
SplitFrom(s, cur) ==
    IF s = <<>> THEN (IF cur = <<>> THEN <<>> ELSE <<cur>>)
    ELSE IF s[1] = " "
         THEN (IF cur = <<>> THEN <<>> ELSE <<cur>>) \o SplitFrom(Tail(s), <<>>)
         ELSE SplitFrom(Tail(s), Append(cur, s[1]))

Split(s) == SplitFrom(s, <<>>)

\* items.count(x)
Count(items, x) == Cardinality({i \in 1..Len(items) : items[i] = x})

\* items.index(x): 0-based, -1 standing for ValueError
Index(items, x) ==
    LET hits == {i \in 1..Len(items) : items[i] = x}
    IN  IF hits = {} THEN -1 ELSE (CHOOSE i \in hits : \A j \in hits : i <= j) - 1

RECURSIVE Concat(_)
Concat(ss) == IF ss = <<>> THEN <<>> ELSE Head(ss) \o Concat(Tail(ss))

-----------------------------------------------------------------------------
(* dict: a sequence of entries [key, val] in insertion order               *)

Keys(d) == {d[i].key : i \in 1..Len(d)}
Has(d, k) == k \in Keys(d)
Get(d, k) == d[CHOOSE i \in 1..Len(d) : d[i].key = k].val

\* d.pop(k) as far as the dict is concerned
Pop(d, k) ==
    LET RECURSIVE Without(_)
        Without(r) == IF r = <<>> THEN <<>>
                      ELSE (IF Head(r).key = k THEN <<>> ELSE <<Head(r)>>) \o Without(Tail(r))
    IN  Without(d)

\* d[k] = v
Set(d, k, v) ==
    IF Has(d, k) THEN [i \in 1..Len(d) |-> IF d[i].key = k THEN [key |-> k, val |-> v] ELSE d[i]]
    ELSE Append(d, [key |-> k, val |-> v])

\* list(d)
KeyList(d) == [i \in 1..Len(d) |-> d[i].key]

\* the dict as a mapping, for comparing two dicts as Python's == does
AsMap(d) == [k \in Keys(d) |-> Get(d, k)]

RECURSIVE SumVals(_)
SumVals(d) == IF d = <<>> THEN 0 ELSE Head(d).val + SumVals(Tail(d))

\* dict(collections.Counter(items)): every distinct item with the number of
\* its occurrences, in the order of first occurrence
Counter(items) ==
    LET first  == {i \in 1..Len(items) : \A j \in 1..(i - 1) : items[j] # items[i]}
        nth(k) == CHOOSE i \in first : Cardinality({j \in first : j < i}) = k - 1
    IN  [k \in 1..Cardinality(first) |->
            [key |-> items[nth(k)], val |-> Count(items, items[nth(k)])]]

-----------------------------------------------------------------------------
(* populate_freqs                                                          *)

\* a mutation of MergeInto: the source entry is read, not popped
MergeIntoKeepingSource(d, target, source) ==
    Set(d, target, Get(d, target) + Get(d, source))

\* self.freqs[target] += self.freqs.pop(source): the old value of target is
\* loaded, then source is popped, then the sum is stored under target
MergeInto(d, target, source) ==
    LET old    == Get(d, target)
        popped == Get(d, source)
    IN  Set(Pop(d, source), target, old + popped)

CapFirst(w) == <<ToUpper(w[1])>> \o Tail(w)
LowFirst(w) == <<ToLower(w[1])>> \o Tail(w)

\* one iteration of the first loop
CasePairStep(d, w) ==
    LET capitalized_word == IF IsLower(w[1]) THEN CapFirst(w) ELSE w
        lower_word       == IF IsLower(w[1]) THEN w ELSE LowFirst(w)
    IN  IF Has(d, lower_word) /\ Has(d, capitalized_word)
        THEN MergeInto(d, lower_word, capitalized_word)
        ELSE d

\* one iteration of the second loop
AllCapsStep(d, w) ==
    IF Len(w) = 1 THEN d
    ELSE IF \E i \in 1..Len(w) : IsLower(w[i]) THEN d
    ELSE LET all_lower_word   == StrLower(w)
             capitalized_word == CapFirst(all_lower_word)
         IN  IF Has(d, capitalized_word) THEN MergeInto(d, capitalized_word, w)
             ELSE IF Has(d, all_lower_word) THEN MergeInto(d, all_lower_word, w)
             ELSE d

\* for word in list(self.freqs): the snapshot is walked, the dict changes
RECURSIVE CasePairPass(_, _)
CasePairPass(d, snapshot) ==
    IF snapshot = <<>> THEN d
    ELSE CasePairPass(CasePairStep(d, Head(snapshot)), Tail(snapshot))

RECURSIVE AllCapsPass(_, _)
AllCapsPass(d, snapshot) ==
    IF snapshot = <<>> THEN d
    ELSE AllCapsPass(AllCapsStep(d, Head(snapshot)), Tail(snapshot))

\* the two loops of populate_freqs
Reconcile(d) ==
    LET after1 == CasePairPass(d, KeyList(d))
    IN  AllCapsPass(after1, KeyList(after1))


-----------------------------------------------------------------------------
(* The fields as __init__ leaves them; a specification that does not run a *)
(* group of methods keeps that group's variables at these values.          *)

FreqIdle == tokens = <<>> /\ freqs = <<>> /\ freqs2 = <<>>
BookIdle ==
    /\ file = <<>> /\ pos = 0 /\ line = <<>>
    /\ book_parsed = <<>> /\ with_punctuation = <<>> /\ apostrophes_only = <<>>
    /\ without_matching = <<>>
QueryIdle ==
    arg = [op |-> "none", val |-> <<>>] /\ result = <<>> /\ spans = <<>> /\ raised = "none"
GenIdle ==
    /\ book_parsed_list = <<>> /\ next_words = <<>> /\ word = <<>>
    /\ word_index = 0 /\ sentence_len = 0 /\ sentence_last = <<>>

-----------------------------------------------------------------------------
(* SpecFreq: populate_freqs over every short text of a small vocabulary    *)

MaxTokens == 4

\* it It IT: a common word, sentence-initial and emphasised; Mr MR: a proper
\* noun and its emphasis; a A: one-letter words; 1 12: tokens without case
Words == { <<"i","t">>, <<"I","t">>, <<"I","T">>, <<"M","r">>, <<"M","R">>,
           <<"a">>, <<"A">>, <<"1">>, <<"1","2">> }

TokenLists == UNION {[1..n -> Words] : n \in 0..MaxTokens}

InitFreq ==
    /\ pc = "populate_freqs"
    /\ tokens \in TokenLists
    /\ freqs = <<>> /\ freqs2 = <<>>
    /\ chapters = 1 /\ least = <<>>
    /\ BookIdle /\ QueryIdle /\ GenIdle

\* populate_freqs, called by __init__
PopulateFreqs ==
    /\ pc = "populate_freqs"
    /\ freqs' = Reconcile(Counter(tokens))
    /\ pc' = "ready"
    /\ UNCHANGED <<tokens, freqs2, chapters, least, bookVars, queryVars, genVars>>

\* the two reconciliation loops run once more, over the table they produced
ReconcileAgain ==
    /\ pc = "ready"
    /\ freqs2' = Reconcile(freqs)
    /\ pc' = "reconciled_twice"
    /\ UNCHANGED <<tokens, freqs, chapters, least, bookVars, queryVars, genVars>>

NextFreq == PopulateFreqs \/ ReconcileAgain

SpecFreq == InitFreq /\ [][NextFreq]_vars

\* C1: after populate_freqs the counts of the table add up to the number of
\* whitespace-delimited tokens of the text, whatever the tokens are.
C1_SumPreserved ==
    pc # "populate_freqs" => SumVals(freqs) = Len(tokens)

\* C2: running the two reconciliation passes over their own output gives the
\* same table (same keys, same counts) as running them once.
C2_Idempotent ==
    pc = "reconciled_twice" => AsMap(freqs2) = AsMap(freqs)

\* C5: after populate_freqs no key with a lowercase first letter has its
\* capitalized spelling as a key too, and where the text had both spellings
\* the lowercase entry remains and holds at least the occurrences of both.
C5_NoCasePair ==
    pc # "populate_freqs" =>
        /\ \A w \in Keys(freqs) : IsLower(w[1]) => ~Has(freqs, CapFirst(w))
        /\ \A w \in Words :
              (IsLower(w[1]) /\ Count(tokens, w) > 0 /\ Count(tokens, CapFirst(w)) > 0)
                  => /\ Has(freqs, w)
                     /\ Get(freqs, w) >= Count(tokens, w) + Count(tokens, CapFirst(w))

\* a text with both spellings of a word has been reconciled
C5_Witness ==
    /\ pc = "ready"
    /\ \E w \in Keys(freqs) :
          IsLower(w[1]) /\ Count(tokens, w) > 0 /\ Count(tokens, CapFirst(w)) > 0

-----------------------------------------------------------------------------
(* get_20_least_frequent_words                                             *)

Twenty == 20

Digits == <<"0", "1", "2", "3", "4", "5", "6", "7", "8", "9">>

\* str(i) for i >= 0
RECURSIVE Str(_)
Str(i) == IF i < 10 THEN <<Digits[i + 1]>> ELSE Str(i \div 10) \o <<Digits[(i % 10) + 1]>>

\* self.chapter_numbers_list = [str(i) for i in range(1, self.chapters)]
ChapterNumbersList(n) == [i \in 1..(n - 1) |-> Str(i)]

\* a mutation of InChapterNumbers: no token is taken for a chapter number
InNoChapterNumbers(w, n) == FALSE

\* popped[1] in self.chapter_numbers_list
InChapterNumbers(w, n) == \E i \in 1..Len(ChapterNumbersList(n)) : ChapterNumbersList(n)[i] = w

\* (freq, word) tuples compare by freq, then by word
TupleLess(x, y) == x[1] < y[1] \/ (x[1] = y[1] /\ StrLess(x[2], y[2]))

\* heap = [(freq, word) for word, freq in self.freqs.items()]; heapq.heapify(heap)
Heapify(d) == {<<d[i].val, d[i].key>> : i \in 1..Len(d)}

\* heapq.heappop(heap) returns the smallest item of the heap
HeapMin(heap) == CHOOSE x \in heap : \A y \in heap \ {x} : TupleLess(x, y)

Mr  == <<"M", "r">>
Mrs == <<"M", "r", "s">>
Esq == <<"E", "s", "q">>

\* the loop that appends '.' to a word containing 'Mrs', 'Mr' or 'Esq'
AddHonorificPeriod(w) ==
    IF Contains(w, Mrs) \/ Contains(w, Mr) \/ Contains(w, Esq) THEN Append(w, ".") ELSE w

\* the while loop: pop until 20 words are kept or the heap is empty
RECURSIVE LeastLoop(_, _, _)
LeastLoop(heap, kept, n) ==
    IF ~(Len(kept) < Twenty) THEN kept
    ELSE IF heap = {} THEN kept
    ELSE LET popped == HeapMin(heap)
         IN  LeastLoop(heap \ {popped},
                       IF ~InChapterNumbers(popped[2], n)
                       THEN Append(kept, <<popped[2], popped[1]>>)
                       ELSE kept,
                       n)

Get20LeastFrequentWords(d, n) ==
    LET kept == LeastLoop(Heapify(d), <<>>, n)
    IN  [i \in 1..Len(kept) |-> <<AddHonorificPeriod(kept[i][1]), kept[i][2]>>]

-----------------------------------------------------------------------------
(* SpecRank: the least frequent words of texts with more than 20 words     *)

MaxChapters == 3
MaxCount == 2

Letters4 == {"a", "b", "c", "d"}

\* words every text of the family has, once each
CoreWords ==
    ({<<x, y>> : x \in Letters4, y \in Letters4}
        \ {<<"a","a">>, <<"d","d">>, <<"a","b">>, <<"d","c">>})
    \cup {Esq, <<"I", "t">>, <<"3">>}
\* words a text may lack
OptionalWords == {<<"a","a">>, <<"d","d">>, Mr, <<"1">>}
\* words a text has 1..MaxCount times
CountedWords == {<<"a","b">>, <<"d","c">>, Mrs, <<"2">>}

\* n copies of w
Copies(w, n) == [i \in 1..n |-> w]

\* a text with each word of the mapping as often as the mapping says
RECURSIVE TextOf(_)
TextOf(counts) ==
    IF DOMAIN counts = {} THEN <<>>
    ELSE LET w == CHOOSE x \in DOMAIN counts : TRUE
         IN  Copies(w, counts[w]) \o TextOf([x \in DOMAIN counts \ {w} |-> counts[x]])

RankTexts ==
    { TextOf([w \in CoreWords \cup present \cup CountedWords |->
                 IF w \in CountedWords THEN c[w] ELSE 1]) :
        present \in SUBSET OptionalWords, c \in [CountedWords -> 1..MaxCount] }

InitRank ==
    /\ pc = "populate_freqs"
    /\ tokens \in RankTexts
    /\ freqs = <<>> /\ freqs2 = <<>>
    /\ chapters \in 1..MaxChapters
    /\ least = <<>>
    /\ BookIdle /\ QueryIdle /\ GenIdle

GetLeastFrequent ==
    /\ pc = "ready"
    /\ least' = Get20LeastFrequentWords(freqs, chapters)
    /\ pc' = "ranked"
    /\ UNCHANGED <<freqVars, chapters, bookVars, queryVars, genVars>>

NextRank == PopulateFreqs \/ GetLeastFrequent

SpecRank == InitRank /\ [][NextRank]_vars

\* the entries of the table that are not chapter-number literals
Candidates == {i \in 1..Len(freqs) : \A n \in 1..(chapters - 1) : freqs[i].key # Str(n)}

\* the number of candidates that come before entry i in (count, token) order
RankOf(i) ==
    Cardinality({j \in Candidates :
        \/ freqs[j].val < freqs[i].val
        \/ (freqs[j].val = freqs[i].val /\ StrLess(freqs[j].key, freqs[i].key))})

-----------------------------------------------------------------------------
(* parse_book_txt_file                                                     *)

Chapter1Line == <<"C", "h", "a", "p", "t", "e", "r", " ", "1", "\n">>
ChapterWord  == <<"C", "h", "a", "p", "t", "e", "r", " ">>
EndMarker    == <<"E", "n", "d", " ", "o", "f", " ", "t", "h", "e", " ", "P", "r", "o", "j", "e", "c", "t", " ", "G", "u", "t", "e", "n", "b", "e", "r", "g", " ", "E", "B", "o", "o", "k">>

\* string.punctuation (the grave accent written BACKTICK)
Punctuation == {"!", "\"", "#", "$", "%", "&", "'", "(", ")", "*", "+", ",",
                "-", ".", "/", ":", ";", "<", "=", ">", "?", "@", "[", "\\",
                "]", "^", "_", "BACKTICK", "{", "|", "}", "~"}

\* exclude, as it stands at line 65: the punctuation and the two curly double
\* quotes (written LDQ and RDQ, one character each), without the hyphen
Exclude == (Punctuation \cup {"LDQ", "RDQ"}) \ {"-"}

\* line = f.readline(): the next line, or '' at the end of the file
ReadLine ==
    /\ pc = "seek_read"
    /\ line' = (IF pos < Len(file) THEN file[pos + 1] ELSE <<>>)
    /\ pos' = (IF pos < Len(file) THEN pos + 1 ELSE pos)
    /\ pc' = "seek_test"
    /\ UNCHANGED <<freqVars, chapters, least, file, book_parsed, with_punctuation,
                   apostrophes_only, without_matching, queryVars, genVars>>

\* while (line != 'Chapter 1\n')
SeekTest ==
    /\ pc = "seek_test"
    /\ pc' = (IF line # Chapter1Line THEN "seek_read" ELSE "body")
    /\ UNCHANGED <<freqVars, chapters, least, bookVars, queryVars, genVars>>

\* one iteration of for line in f
BodyLine ==
    /\ pc = "body"
    /\ pos < Len(file)
    /\ line' = file[pos + 1]
    /\ pos' = pos + 1
    /\ IF Contains(file[pos + 1], EndMarker)
       THEN pc' = "normalize" /\ UNCHANGED <<chapters, book_parsed>>
       ELSE /\ pc' = "body"
            /\ chapters' = (IF Contains(file[pos + 1], ChapterWord) THEN chapters + 1 ELSE chapters)
            /\ book_parsed' = book_parsed \o Replace(file[pos + 1], <<"\n">>, <<" ">>)
    /\ UNCHANGED <<freqVars, least, file, with_punctuation, apostrophes_only,
                   without_matching, queryVars, genVars>>

\* for line in f ends with the file
BodyEnd ==
    /\ pc = "body"
    /\ pos = Len(file)
    /\ pc' = "normalize"
    /\ UNCHANGED <<freqVars, chapters, least, bookVars, queryVars, genVars>>

\* line 51: the replace calls, in their order
WithoutMatching(text) ==
    LET r1 == Replace(text, <<"_">>, <<>>)
        r2 == Replace(Replace(r1, <<"LDQ">>, <<>>), <<"RDQ">>, <<>>)
        r3 == Replace(r2, <<"'", " ">>, <<" ">>)
        r4 == Replace(Replace(r3, <<"(">>, <<>>), <<")">>, <<>>)
    IN  Replace(Replace(r4, <<"[">>, <<>>), <<"]">>, <<>>)

\* lines 48-67, and the text populate_freqs splits
Normalize ==
    /\ pc = "normalize"
    /\ with_punctuation' = Replace(book_parsed, <<"_">>, <<>>)
    /\ without_matching' = WithoutMatching(book_parsed)
    /\ LET dashed == Replace(book_parsed, <<"-", "-">>, <<" ">>)
       IN  /\ apostrophes_only' = Strip(dashed, Exclude \ {"'"})
           /\ book_parsed' = Strip(dashed, Exclude)
           /\ tokens' = Split(Strip(dashed, Exclude \ {"'"}))
    /\ pc' = "populate_freqs"
    /\ UNCHANGED <<freqs, freqs2, chapters, least, file, pos, line, queryVars, genVars>>

-----------------------------------------------------------------------------
(* get_chapter_quote_appears and get_frequency_of_word                     *)

\* iteration i of get_chapter_quote_appears: the indices and chapter_parsed
QuoteSpan(text, n, i) ==
    LET chapter_start_index == Find(text, ChapterWord \o Str(i))
        chapter_stop_index  == Find(text, ChapterWord \o Str(i + 1))
    IN  IF i = n
        THEN [start |-> chapter_start_index, stop |-> Len(text),
              text |-> SliceFrom(text, chapter_start_index)]
        ELSE [start |-> chapter_start_index, stop |-> chapter_stop_index,
              text |-> Slice(text, chapter_start_index, chapter_stop_index)]

\* the value get_chapter_quote_appears returns
ChapterQuoteAppears(text, n, quote) ==
    LET found == {i \in 1..n : Contains(QuoteSpan(text, n, i).text, quote)}
    IN  IF found = {} THEN -1 ELSE CHOOSE i \in found : \A j \in found : i <= j

\* iteration i of get_frequency_of_word
FrequencySpan(text, n, i) ==
    LET chapter_start == ChapterWord \o Str(i)
        chapter_stop  == IF i = n THEN EndMarker ELSE ChapterWord \o Str(i + 1)
        chapter_start_index == Find(text, chapter_start)
        chapter_stop_index  == Find(text, chapter_stop)
    IN  [start |-> chapter_start_index, stop |-> chapter_stop_index,
         text |-> Slice(text, chapter_start_index, chapter_stop_index)]

\* the value get_frequency_of_word returns
FrequencyOfWord(text, n, w) ==
    [i \in 1..n |-> Count(Split(FrequencySpan(text, n, i).text), w)]

-----------------------------------------------------------------------------
(* SpecBook: the constructor and the chapter queries over small books      *)

MaxChapterLines == 2

FrontLine == <<"T", "i", "t", "l", "e", "\n">>
EndLine   == EndMarker \o <<"\n">>
BackLine  == <<"L", "i", "c", "e", "n", "s", "e", "\n">>

\* the lines chapters are made of: ab.  c_d  e--f's
ProseLines == {<<"a", "b", ".", "\n">>, <<"c", "_", "d", "\n">>,
               <<"e", "-", "-", "f", "'", "s", "\n">>}

ChapterBodies == UNION {[1..n -> ProseLines] : n \in 1..MaxChapterLines}

\* the line that opens chapter i
ChapterLine(i) == ChapterWord \o Str(i) \o <<"\n">>

\* chapter 1 follows the 'Chapter 1' line read by the seek loop; every later
\* chapter starts with its own line
RECURSIVE LaterChapters(_, _)
LaterChapters(bodies, i) ==
    IF i > Len(bodies) THEN <<>>
    ELSE <<ChapterLine(i)>> \o bodies[i] \o LaterChapters(bodies, i + 1)

BookFile(hasStart, bodies, hasEnd) ==
    <<FrontLine>>
    \o (IF hasStart THEN <<Chapter1Line>> ELSE <<>>)
    \o bodies[1] \o LaterChapters(bodies, 2)
    \o (IF hasEnd THEN <<EndLine, BackLine>> ELSE <<>>)

Books ==
    { BookFile(hasStart, bodies, hasEnd) :
        hasStart \in BOOLEAN, hasEnd \in BOOLEAN,
        bodies \in UNION {[1..n -> ChapterBodies] : n \in 1..MaxChapters} }

Quotes == {<<"a", "b", ".">>, <<"c", "d">>, <<"f", "'", "s">>, <<"z", "z">>}
QueryWords == {<<"a", "b">>, <<"c", "d">>, <<"f", "'", "s">>}

InitBook ==
    /\ pc = "seek_read"
    /\ file \in Books
    /\ pos = 0 /\ line = <<>>
    /\ book_parsed = <<>> /\ with_punctuation = <<>> /\ apostrophes_only = <<>>
    /\ without_matching = <<>>
    /\ chapters = 1
    /\ least = <<>>
    /\ FreqIdle /\ QueryIdle /\ GenIdle

GetChapterQuoteAppears ==
    /\ pc = "ready"
    /\ \E quote \in Quotes :
          LET found == ChapterQuoteAppears(with_punctuation, chapters, quote)
          IN  /\ arg' = [op |-> "quote", val |-> quote]
              /\ result' = found
              /\ spans' = [i \in 1..(IF found = -1 THEN chapters ELSE found) |->
                              QuoteSpan(with_punctuation, chapters, i)]
    /\ raised' = "none"
    /\ UNCHANGED <<pc, freqVars, chapters, least, bookVars, genVars>>

GetFrequencyOfWord ==
    /\ pc = "ready"
    /\ \E w \in QueryWords :
          /\ arg' = [op |-> "frequency", val |-> w]
          /\ result' = FrequencyOfWord(apostrophes_only, chapters, w)
          /\ spans' = [i \in 1..chapters |-> FrequencySpan(apostrophes_only, chapters, i)]
    /\ raised' = "none"
    /\ UNCHANGED <<pc, freqVars, chapters, least, bookVars, genVars>>

\* the loop of lines 34-36
Seek == ReadLine \/ SeekTest

\* the steps of __init__
Load == Seek \/ BodyLine \/ BodyEnd \/ Normalize \/ PopulateFreqs

NextBook == Load \/ GetChapterQuoteAppears \/ GetFrequencyOfWord

\* The interpreter always takes the next step of the running constructor.
\* Fairness is stated for the seek loop, whose termination is in question; a
\* behaviour that stays in that loop for ever is fair for all of Load as well.
SpecBook == InitBook /\ [][NextBook]_vars /\ WF_vars(Seek)

\* The chapters as the book file has them: the lines between the 'Chapter 1'
\* line and the end marker, a line with 'Chapter ' opening the next chapter.
StartAt == CHOOSE i \in 1..Len(file) : file[i] = Chapter1Line /\ \A j \in 1..(i - 1) : file[j] # Chapter1Line
BodyStop ==
    LET ends == {i \in (StartAt + 1)..Len(file) : Contains(file[i], EndMarker)}
    IN  IF ends = {} THEN Len(file) + 1 ELSE CHOOSE i \in ends : \A j \in ends : i <= j
ChapterOfLine(i) ==
    1 + Cardinality({j \in (StartAt + 1)..i : Contains(file[j], ChapterWord)})
RECURSIVE ChapterTextFrom(_, _)
ChapterTextFrom(c, i) ==
    IF i >= BodyStop THEN <<>>
    ELSE (IF ChapterOfLine(i) = c THEN Replace(file[i], <<"\n">>, <<" ">>) ELSE <<>>)
         \o ChapterTextFrom(c, i + 1)
ChapterText(c) == Strip(ChapterTextFrom(c, StartAt + 1), {"_"})
Occurrences(s, p) == {i \in 0..(Len(s) - Len(p)) : SubSeq(s, i + 1, i + Len(p)) = p}

\* C6: a quote whose only occurrences lie inside chapter c is reported in
\* chapter c, for every c from the first to the last; a quote that occurs
\* nowhere is reported as -1.
C6_QuoteChapter ==
    (pc = "ready" /\ arg.op = "quote") =>
        /\ Occurrences(with_punctuation, arg.val) = {} => result = -1
        /\ \A c \in 1..chapters :
              ( /\ Occurrences(ChapterText(c), arg.val) # {}
                /\ Cardinality(Occurrences(ChapterText(c), arg.val))
                     = Cardinality(Occurrences(with_punctuation, arg.val)) )
              => result = c

\* C7: the N chapter spans a query computes are contiguous and their
\* concatenation is the whole body text the query reads.
C7_SpansCoverBody ==
    (pc = "ready" /\ arg.op \in {"quote", "frequency"} /\ Len(spans) = chapters) =>
        /\ \A i \in 1..(chapters - 1) : spans[i].stop = spans[i + 1].start
        /\ Concat([i \in 1..chapters |-> spans[i].text])
             = (IF arg.op = "quote" THEN with_punctuation ELSE apostrophes_only)

\* C9: a book file without a 'Chapter 1' line makes loading end in failure.
C9_MissingMarkerFails ==
    (\A i \in 1..Len(file) : file[i] # Chapter1Line) => <>(pc = "failed")

-----------------------------------------------------------------------------
(* get_autocomplete_sentences                                              *)

MrsDot == <<"M", "r", "s", ".">>
MrDot  == <<"M", "r", ".">>
EsqDot == <<"E", "s", "q", ".">>
MrsMask == <<"$", "M", "R", "S", "$">>
MrMask  == <<"$", "M", "R", "$">>
EsqMask == <<"$", "E", "S", "Q", "$">>

\* line 329
MaskText(text) == Replace(Replace(Replace(text, MrsDot, MrsMask), MrDot, MrMask), EsqDot, EsqMask)

\* re.split('(?<=[.!?]).', text): every character that follows '.', '!' or '?'
\* is a separator; i is the next character to try, start the start of the piece
RECURSIVE ReSplitFrom(_, _, _)
ReSplitFrom(text, i, start) ==
    IF i > Len(text) THEN <<SubSeq(text, start, Len(text))>>
    ELSE IF i >= 2 /\ text[i - 1] \in {".", "!", "?"}
         THEN <<SubSeq(text, start, i - 1)>> \o ReSplitFrom(text, i + 1, i + 1)
         ELSE ReSplitFrom(text, i + 1, start)

ReSplit(text) == ReSplitFrom(text, 1, 1)

\* Trie(): the nodes are the paths from the root, ends the stored sentences
EmptyTrie == [nodes |-> {<<>>}, ends |-> {}]

\* Trie.insert(sentence)
TrieInsert(trie, sentence) ==
    [nodes |-> trie.nodes \cup {SubSeq(sentence, 1, n) : n \in 0..Len(sentence)},
     ends  |-> trie.ends \cup {sentence}]

\* Trie.get_autocomplete_sentences_helper(prefix): nothing when the walk
\* along prefix leaves the trie, else every sentence below the node reached
TrieAutocomplete(trie, prefix) ==
    IF prefix \notin trie.nodes THEN {}
    ELSE {sentence \in trie.ends : StartsWith(sentence, prefix)}

\* lines 334-338
RECURSIVE BuildTrie(_, _, _)
BuildTrie(trie, sentences, i) ==
    IF i > Len(sentences) THEN trie
    ELSE BuildTrie(TrieInsert(trie, sentences[i]), sentences, i + 1)

\* lines 342-347: the third test replaces 'Mr.' again
MaskPrefix(capitalized) ==
    LET s1 == IF Contains(capitalized, MrsDot) THEN Replace(capitalized, MrsDot, MrsMask) ELSE capitalized
        s2 == IF Contains(s1, MrDot) THEN Replace(s1, MrDot, MrMask) ELSE s1
    IN  IF Contains(s2, EsqDot) THEN Replace(s2, MrDot, MrMask) ELSE s2

\* lines 352-358
Unmask(sentence) ==
    LET s1 == IF Contains(sentence, MrsMask) THEN Replace(sentence, MrsMask, MrsDot) ELSE sentence
        s2 == IF Contains(s1, MrMask) THEN Replace(s1, MrMask, MrDot) ELSE s1
    IN  IF Contains(s2, EsqMask) THEN Replace(s2, EsqMask, EsqDot) ELSE s2

\* the value returned for a start_of_sentence that is not empty
GetAutocompleteSentences(text, start_of_sentence) ==
    LET trie        == BuildTrie(EmptyTrie, ReSplit(MaskText(text)), 1)
        capitalized == <<ToUpper(start_of_sentence[1])>> \o Tail(start_of_sentence)
    IN  {Unmask(sentence) : sentence \in TrieAutocomplete(trie, MaskPrefix(capitalized))}

-----------------------------------------------------------------------------
(* SpecTrie: the queries of a constructed session over short texts         *)

MaxSentences == 2

SentencePool == {<<"M", "r", ".", " ", "A", " ", "b", ".">>, <<"E", "s", "q", ".", " ", "C", "!">>,
                 <<"M", "r", "s", ".", " ", "D", "?">>, <<"H", "e", " ", "b", ".">>, <<"a", " ", "b", ".">>}

\* the text of the lines, each followed by the blank that replaces its '\n'
RECURSIVE JoinLines(_, _)
JoinLines(ls, i) == IF i > Len(ls) THEN <<>> ELSE ls[i] \o <<" ">> \o JoinLines(ls, i + 1)

TrieTexts == {JoinLines(ls, 1) : ls \in UNION {[1..n -> SentencePool] : n \in 1..MaxSentences}}

\* the sentences get_autocomplete_sentences stores, as it returns them
InsertedSentences ==
    LET stored == ReSplit(MaskText(with_punctuation))
    IN  {Unmask(stored[i]) : i \in 1..Len(stored)}

NeverPrefix == <<"Z", "z", "z", "y", "x">>

PrefixInputs ==
    {<<>>, NeverPrefix}
    \cup UNION {{SubSeq(S, 1, i) : i \in 1..Len(S)} : S \in InsertedSentences}

InitTrie ==
    /\ pc = "ready"
    /\ with_punctuation \in TrieTexts
    /\ apostrophes_only = Strip(Replace(with_punctuation, <<"-", "-">>, <<" ">>), Exclude \ {"'"})
    /\ book_parsed = Strip(Replace(with_punctuation, <<"-", "-">>, <<" ">>), Exclude)
    /\ without_matching = WithoutMatching(with_punctuation)
    /\ file = <<>> /\ pos = 0 /\ line = <<>>
    /\ chapters = 1
    /\ least = <<>>
    /\ FreqIdle /\ QueryIdle /\ GenIdle

GetAutocomplete ==
    /\ pc = "ready"
    /\ \E start_of_sentence \in PrefixInputs :
          /\ arg' = [op |-> "autocomplete", val |-> start_of_sentence]
          /\ IF start_of_sentence = <<>>
             THEN raised' = "IndexError" /\ result' = {}
             ELSE /\ raised' = "none"
                  /\ result' = GetAutocompleteSentences(with_punctuation, start_of_sentence)
    /\ spans' = <<>>
    /\ UNCHANGED <<pc, freqVars, chapters, least, bookVars, genVars>>

NextTrie == GetAutocomplete \/ GetChapterQuoteAppears \/ GetFrequencyOfWord

SpecTrie == InitTrie /\ [][NextTrie]_vars

\* C4: for every stored sentence S and every i in 1..Len(S), the sentences
\* returned for S[0:i] contain S, honorifics in S or in the prefix included.
C4_PrefixLaw ==
    (arg.op = "autocomplete" /\ arg.val # <<>>) =>
        \A S \in InsertedSentences :
            StartsWith(S, arg.val) => (raised = "none" /\ S \in result)

\* C8: no query ends in an exception, whatever the argument, the empty string
\* included; a miss is an empty list, a quote not found is -1.
C8_NoQueryRaises ==
    /\ raised = "none"
    /\ (arg.op = "autocomplete" /\ \A S \in InsertedSentences : ~StartsWith(S, arg.val))
          => result = {}
    /\ (arg.op = "quote" /\ ~Contains(with_punctuation, arg.val)) => result = -1

-----------------------------------------------------------------------------
(* generate_sentence and generate_sentence_helper                          *)
(* Of sentence_list the loop of generate_sentence reads the length and the *)
(* last word only; the model keeps these two.  sentence_len = 0 marks a    *)
(* call of generate_sentence_helper from outside generate_sentence.        *)

SentenceLength == 20

The == <<"T", "h", "e">>

\* sentence_list = ['The']
GenerateSentence ==
    /\ pc = "ready"
    /\ sentence_len' = 1
    /\ sentence_last' = The
    /\ pc' = "sentence_loop"
    /\ UNCHANGED <<freqVars, chapters, least, bookVars, queryVars,
                   book_parsed_list, next_words, word, word_index>>

\* while len(sentence_list) < 20: the call of generate_sentence_helper with
\* the last word, up to the head of its loop
SentenceLoop ==
    /\ pc = "sentence_loop"
    /\ IF sentence_len < SentenceLength
       THEN /\ word' = sentence_last
            /\ book_parsed_list' = Split(without_matching)
            /\ next_words' = <<>>
            /\ pc' = "helper_index"
       ELSE /\ pc' = "sentence_done"
            /\ UNCHANGED <<word, book_parsed_list, next_words>>
    /\ UNCHANGED <<freqVars, chapters, least, bookVars, queryVars,
                   word_index, sentence_len, sentence_last>>

\* generate_sentence_helper(w) called for a word of the text
CallHelper ==
    /\ pc = "ready"
    /\ \E i \in 1..Len(Split(without_matching)) : word' = Split(without_matching)[i]
    /\ book_parsed_list' = Split(without_matching)
    /\ next_words' = <<>>
    /\ sentence_len' = 0
    /\ pc' = "helper_index"
    /\ UNCHANGED <<freqVars, chapters, least, bookVars, queryVars, word_index, sentence_last>>

\* word_index = book_parsed_list.index(word); ValueError sets done
HelperIndex ==
    /\ pc = "helper_index"
    /\ IF Index(book_parsed_list, word) = -1
       THEN pc' = "helper_choose" /\ UNCHANGED word_index
       ELSE pc' = "helper_check" /\ word_index' = Index(book_parsed_list, word)
    /\ UNCHANGED <<freqVars, chapters, least, bookVars, queryVars,
                   book_parsed_list, next_words, word, sentence_len, sentence_last>>

\* if word_index < len(book_parsed_list) - 1: ...; then the loop test again
HelperCheck ==
    /\ pc = "helper_check"
    /\ IF word_index < Len(book_parsed_list) - 1
       THEN /\ next_words' = Append(next_words, book_parsed_list[word_index + 2])
            /\ book_parsed_list' = SliceFrom(book_parsed_list, word_index + 1)
       ELSE UNCHANGED <<next_words, book_parsed_list>>
    /\ pc' = "helper_index"
    /\ UNCHANGED <<freqVars, chapters, least, bookVars, queryVars,
                   word, word_index, sentence_len, sentence_last>>

\* random.randint(0, len(next_words) - 1) raises ValueError on an empty range
HelperChoose ==
    /\ pc = "helper_choose"
    /\ IF next_words = <<>>
       THEN /\ raised' = "ValueError"
            /\ pc' = "raised"
            /\ UNCHANGED <<arg, result, spans>>
       ELSE /\ \E random_index \in 0..(Len(next_words) - 1) :
                   result' = next_words[random_index + 1]
            /\ arg' = [op |-> "helper", val |-> word]
            /\ pc' = "helper_returned"
            /\ UNCHANGED <<raised, spans>>
    /\ UNCHANGED <<freqVars, chapters, least, bookVars, genVars>>

\* sentence_list.append(...) in generate_sentence, or the return to the caller
HelperReturn ==
    /\ pc = "helper_returned"
    /\ IF sentence_len = 0
       THEN pc' = "ready" /\ UNCHANGED <<sentence_len, sentence_last>>
       ELSE /\ sentence_len' = sentence_len + 1
            /\ sentence_last' = result
            /\ pc' = "sentence_loop"
    /\ UNCHANGED <<freqVars, chapters, least, bookVars, queryVars,
                   book_parsed_list, next_words, word, word_index>>

\* lines 285-295: the sentence is joined and returned
ReturnSentence ==
    /\ pc = "sentence_done"
    /\ pc' = "ready"
    /\ arg' = [op |-> "generate", val |-> <<>>]
    /\ sentence_len' = 0
    /\ UNCHANGED <<freqVars, chapters, least, bookVars, result, spans, raised,
                   book_parsed_list, next_words, word, word_index, sentence_last>>

-----------------------------------------------------------------------------
(* SpecGen: sentences generated from every short text of three words       *)

MaxGenTokens == 4

GenWords == {The, <<"a">>, <<"b", ".">>}

GenTexts == {JoinLines(ws, 1) : ws \in UNION {[1..n -> GenWords] : n \in 1..MaxGenTokens}}

InitGen ==
    /\ pc = "ready"
    /\ without_matching \in GenTexts
    /\ with_punctuation = without_matching
    /\ apostrophes_only = Strip(without_matching, Exclude \ {"'"})
    /\ book_parsed = Strip(without_matching, Exclude)
    /\ file = <<>> /\ pos = 0 /\ line = <<>>
    /\ chapters = 1
    /\ least = <<>>
    /\ FreqIdle /\ QueryIdle /\ GenIdle

\* the steps of a running call
Run == SentenceLoop \/ HelperIndex \/ HelperCheck \/ HelperChoose \/ HelperReturn \/ ReturnSentence

NextGen == GenerateSentence \/ CallHelper \/ Run

\* the interpreter always takes the next step of a running call
SpecGen == InitGen /\ [][NextGen]_vars /\ WF_vars(Run)

\* C10: generate_sentence_helper, called with a word of the text, returns,
\* and what it returns follows an occurrence of that word in the text.
C10_HelperReturnsSuccessor ==
    (pc = "helper_index" /\ Count(Split(without_matching), word) > 0)
        ~> ( /\ pc = "helper_returned"
             /\ \E i \in 1..(Len(Split(without_matching)) - 1) :
                   /\ Split(without_matching)[i] = word
                   /\ Split(without_matching)[i + 1] = result )

=============================================================================
